---- MODULE Spec2Model ----
(***************************************************************************)
(* Model of the CIA peripheral chip of src/src/zpc/cia.rs: the two         *)
(* interval timers (CIATimer), the interrupt control register, the         *)
(* time-of-day clock and the memory-mapped register file, together with    *)
(* the collaborators the chip drives (CPU interrupt lines, video chip,     *)
(* I/O memory bank).                                                       *)
(*                                                                         *)
(* Every method of the source is an operator that maps the state before    *)
(* the call to the state after it; every action of the state machine is    *)
(* one call of a public method.  u8/u16 arithmetic keeps its width: the    *)
(* only place where it wraps is `self.value -= 1` in CIATimer::count,      *)
(* modelled modulo 2^16 (the code tests `curr_val == 0` right after it).   *)
(***************************************************************************)
EXTENDS Integers, Sequences, FiniteSets, TLC

VARIABLES
    cia,        \* the CIA struct (cia.rs:197-237), timers included
    cpu,        \* the CPU collaborator's interrupt lines (cpu_ref)
    vic,        \* the video chip collaborator (vic_ref)
    mem,        \* the bus's I/O memory bank (mem_ref), bytes stored by the chip
    callback,   \* the caller's cpu::Callback cell (on_cia_read / on_cia_write)
    retval,     \* the value returned by the last read_register
    panicked,   \* the process aborted in panic!()
    op,         \* the last operation performed: <<name, address, value>>
    steps,      \* number of operations performed so far
    shot,       \* history of the one-shot run of timer A in progress, if any
    track,      \* history of timer A's start and of its period, if any
    todn        \* count_tod calls since the clock last advanced, if it did

vars ==
    <<cia, cpu, vic, mem, callback, retval, panicked, op, steps, shot, track,
      todn>>

----------------------------------------------------------------------------
(* Bit arithmetic on unsigned bytes and words.                             *)

RECURSIVE And(_, _)
And(x, y) ==
    IF x = 0 \/ y = 0 THEN 0
    ELSE (x % 2) * (y % 2) + 2 * And(x \div 2, y \div 2)

Or(x, y) == x + y - And(x, y)

Xor(x, y) == x + y - 2 * And(x, y)

\* !x on a u8
Not8(x) == 255 - x

\* x as u8
AsU8(x) == x % 256

\* x >> k and (x << k) as u8
Shr(x, k) == x \div (2 ^ k)
Shl8(x, k) == (x * (2 ^ k)) % 256

Byte == 0 .. 255

----------------------------------------------------------------------------
(* CIATimer                                                                *)

TimerState ==
    {"Stop", "WaitCount", "LoadStop", "LoadCount", "LoadWaitCount",
     "Count", "CountStop"}

CIATimer_new(is_ta) ==
    [ state            |-> "Stop",
      is_ta            |-> is_ta,
      value            |-> 65535,
      latch            |-> 1,
      ctrl             |-> 0,
      new_ctrl         |-> 0,
      has_new_ctrl     |-> FALSE,
      is_cnt_phi2      |-> FALSE,
      irq_next_cycle   |-> FALSE,
      underflow        |-> FALSE,
      cnt_ta_underflow |-> FALSE ]

\* a timer reset that forgets the latch
CIATimer_reset_keeps_latch(t) ==
    [ t EXCEPT !.state            = "Stop",
               !.value            = 65535,
               !.ctrl             = 0,
               !.new_ctrl         = 0,
               !.has_new_ctrl     = FALSE,
               !.is_cnt_phi2      = FALSE,
               !.irq_next_cycle   = FALSE,
               !.underflow        = FALSE,
               !.cnt_ta_underflow = FALSE ]

CIATimer_reset(t) ==
    [ t EXCEPT !.state            = "Stop",
               !.value            = 65535,
               !.latch            = 1,
               !.ctrl             = 0,
               !.new_ctrl         = 0,
               !.has_new_ctrl     = FALSE,
               !.is_cnt_phi2      = FALSE,
               !.irq_next_cycle   = FALSE,
               !.underflow        = FALSE,
               !.cnt_ta_underflow = FALSE ]

\* The timer methods take the chip's icr by reference: they map a pair
\* [t, icr] to the pair after the call.
TI(t, icr) == [t |-> t, icr |-> icr]

\* an idle step that starts a stopped timer counting without the wait cycle
idle_no_wait(t) ==
    IF ~t.has_new_ctrl THEN t
    ELSE
      LET run  == And(t.new_ctrl, 1) # 0
          load == And(t.new_ctrl, 16) # 0
          t1 ==
            CASE t.state \in {"Stop", "LoadStop"} ->
                   IF run
                   THEN IF load THEN [t EXCEPT !.state = "LoadWaitCount"]
                                ELSE [t EXCEPT !.state = "Count"]
                   ELSE IF load THEN [t EXCEPT !.state = "LoadStop"]
                                ELSE t
              [] t.state \in {"WaitCount", "LoadCount"} ->
                   IF run
                   THEN IF And(t.new_ctrl, 8) # 0
                        THEN [t EXCEPT !.new_ctrl = And(@, 254),
                                       !.state = "Stop"]
                        ELSE IF load THEN [t EXCEPT !.state = "LoadWaitCount"]
                                     ELSE t
                   ELSE [t EXCEPT !.state = "Stop"]
              [] t.state = "Count" ->
                   IF run
                   THEN IF load THEN [t EXCEPT !.state = "LoadWaitCount"]
                                ELSE t
                   ELSE IF load THEN [t EXCEPT !.state = "LoadStop"]
                                ELSE [t EXCEPT !.state = "CountStop"]
              [] OTHER -> t
      IN [t1 EXCEPT !.ctrl = And(t1.new_ctrl, 239),
                    !.has_new_ctrl = FALSE]

\* an idle that stops a starting one-shot timer without clearing the run bit
idle_run_kept(t) ==
    IF ~t.has_new_ctrl THEN t
    ELSE
      LET run  == And(t.new_ctrl, 1) # 0
          load == And(t.new_ctrl, 16) # 0
          t1 ==
            CASE t.state \in {"Stop", "LoadStop"} ->
                   IF run
                   THEN IF load THEN [t EXCEPT !.state = "LoadWaitCount"]
                                ELSE [t EXCEPT !.state = "WaitCount"]
                   ELSE IF load THEN [t EXCEPT !.state = "LoadStop"]
                                ELSE t
              [] t.state \in {"WaitCount", "LoadCount"} ->
                   IF run
                   THEN IF And(t.new_ctrl, 8) # 0
                        THEN [t EXCEPT !.state = "Stop"]
                        ELSE IF load THEN [t EXCEPT !.state = "LoadWaitCount"]
                                     ELSE t
                   ELSE [t EXCEPT !.state = "Stop"]
              [] t.state = "Count" ->
                   IF run
                   THEN IF load THEN [t EXCEPT !.state = "LoadWaitCount"]
                                ELSE t
                   ELSE IF load THEN [t EXCEPT !.state = "LoadStop"]
                                ELSE [t EXCEPT !.state = "CountStop"]
              [] OTHER -> t
      IN [t1 EXCEPT !.ctrl = And(t1.new_ctrl, 239),
                    !.has_new_ctrl = FALSE]

\* an idle that keeps the force-load bit in ctrl
idle_keeps_strobe(t) ==
    IF ~t.has_new_ctrl THEN t
    ELSE
      LET run  == And(t.new_ctrl, 1) # 0
          load == And(t.new_ctrl, 16) # 0
          t1 ==
            CASE t.state \in {"Stop", "LoadStop"} ->
                   IF run
                   THEN IF load THEN [t EXCEPT !.state = "LoadWaitCount"]
                                ELSE [t EXCEPT !.state = "WaitCount"]
                   ELSE IF load THEN [t EXCEPT !.state = "LoadStop"]
                                ELSE t
              [] t.state \in {"WaitCount", "LoadCount"} ->
                   IF run
                   THEN IF And(t.new_ctrl, 8) # 0
                        THEN [t EXCEPT !.new_ctrl = And(@, 254),
                                       !.state = "Stop"]
                        ELSE IF load THEN [t EXCEPT !.state = "LoadWaitCount"]
                                     ELSE t
                   ELSE [t EXCEPT !.state = "Stop"]
              [] t.state = "Count" ->
                   IF run
                   THEN IF load THEN [t EXCEPT !.state = "LoadWaitCount"]
                                ELSE t
                   ELSE IF load THEN [t EXCEPT !.state = "LoadStop"]
                                ELSE [t EXCEPT !.state = "CountStop"]
              [] OTHER -> t
      IN [t1 EXCEPT !.ctrl = t1.new_ctrl,
                    !.has_new_ctrl = FALSE]

idle(t) ==
    IF ~t.has_new_ctrl THEN t
    ELSE
      LET run  == And(t.new_ctrl, 1) # 0
          load == And(t.new_ctrl, 16) # 0
          t1 ==
            CASE t.state \in {"Stop", "LoadStop"} ->
                   IF run
                   THEN IF load THEN [t EXCEPT !.state = "LoadWaitCount"]
                                ELSE [t EXCEPT !.state = "WaitCount"]
                   ELSE IF load THEN [t EXCEPT !.state = "LoadStop"]
                                ELSE t
              [] t.state \in {"WaitCount", "LoadCount"} ->
                   IF run
                   THEN IF And(t.new_ctrl, 8) # 0
                        THEN [t EXCEPT !.new_ctrl = And(@, 254),
                                       !.state = "Stop"]
                        ELSE IF load THEN [t EXCEPT !.state = "LoadWaitCount"]
                                     ELSE t
                   ELSE [t EXCEPT !.state = "Stop"]
              [] t.state = "Count" ->
                   IF run
                   THEN IF load THEN [t EXCEPT !.state = "LoadWaitCount"]
                                ELSE t
                   ELSE IF load THEN [t EXCEPT !.state = "LoadStop"]
                                ELSE [t EXCEPT !.state = "CountStop"]
              [] OTHER -> t
      IN [t1 EXCEPT !.ctrl = And(t1.new_ctrl, 239),
                    !.has_new_ctrl = FALSE]

\* an interrupt action that ignores the one-shot bit
irq_continuous(t, icr) ==
    TI([t EXCEPT !.value = t.latch, !.irq_next_cycle = TRUE,
                 !.state = "LoadCount"],
       Or(icr, IF t.is_ta THEN 1 ELSE 2))

irq(t, icr) ==
    LET t1   == [t EXCEPT !.value = t.latch, !.irq_next_cycle = TRUE]
        icr1 == Or(icr, IF t.is_ta THEN 1 ELSE 2)
    IN IF And(t1.ctrl, 8) # 0
       THEN TI([t1 EXCEPT !.ctrl = And(@, 254),
                          !.new_ctrl = And(@, 254),
                          !.state = "LoadStop"], icr1)
       ELSE TI([t1 EXCEPT !.state = "LoadCount"], icr1)

\* a countdown step that does not look at the selected count input
count_any_input(t, icr, ta_underflow) ==
    LET curr_val == t.value
        t1 == [t EXCEPT !.value = (t.value - 1) % 65536]
    IN IF curr_val = 0 \/ t1.value = 0
       THEN LET r == IF t1.state = "Stop" THEN TI(t1, icr)
                                           ELSE irq(t1, icr)
            IN TI([r.t EXCEPT !.underflow = TRUE], r.icr)
       ELSE TI(t1, icr)

\* a countdown step that underflows only when it starts from zero
count_from_zero(t, icr, ta_underflow) ==
    IF t.is_cnt_phi2 \/ (t.cnt_ta_underflow /\ ta_underflow)
    THEN LET curr_val == t.value
             t1 == [t EXCEPT !.value = (t.value - 1) % 65536]
         IN IF curr_val = 0
            THEN LET r == IF t1.state = "Stop" THEN TI(t1, icr)
                                                ELSE irq(t1, icr)
                 IN TI([r.t EXCEPT !.underflow = TRUE], r.icr)
            ELSE TI(t1, icr)
    ELSE TI(t, icr)

count(t, icr, ta_underflow) ==
    IF t.is_cnt_phi2 \/ (t.cnt_ta_underflow /\ ta_underflow)
    THEN LET curr_val == t.value
             t1 == [t EXCEPT !.value = (t.value - 1) % 65536]
         IN IF curr_val = 0 \/ t1.value = 0
            THEN LET r == IF t1.state = "Stop" THEN TI(t1, icr)
                                                ELSE irq(t1, icr)
                 IN TI([r.t EXCEPT !.underflow = TRUE], r.icr)
            ELSE TI(t1, icr)
    ELSE TI(t, icr)

CIATimer_update(t, icr, ta_underflow) ==
    LET r ==
          CASE t.state = "Stop" -> TI(t, icr)
            [] t.state = "WaitCount" -> TI([t EXCEPT !.state = "Count"], icr)
            [] t.state = "LoadStop" ->
                 TI([t EXCEPT !.state = "Stop", !.value = t.latch], icr)
            [] t.state = "LoadCount" ->
                 TI([t EXCEPT !.state = "Count", !.value = t.latch], icr)
            [] t.state = "LoadWaitCount" ->
                 LET t1 == [t EXCEPT !.state = "WaitCount"]
                 IN IF t1.value = 1 THEN irq(t1, icr)
                    ELSE TI([t1 EXCEPT !.value = t1.latch], icr)
            [] t.state = "Count" -> count(t, icr, ta_underflow)
            [] t.state = "CountStop" ->
                 count([t EXCEPT !.state = "Stop"], icr, ta_underflow)
    IN TI(idle(r.t), r.icr)

----------------------------------------------------------------------------
(* Collaborators of the chip.  Their code is not part of the chip: only    *)
(* the calls the chip makes on them are modelled.                          *)

\* cpu: the two interrupt lines, and how many times each setter was called
\* during the last operation.
CpuIdle(p) == [p EXCEPT !.irq_calls = 0, !.nmi_calls = 0]

set_cia_irq(p, b) == [p EXCEPT !.cia_irq = b, !.irq_calls = @ + 1]

set_nmi(p, b) == [p EXCEPT !.nmi = b, !.nmi_calls = @ + 1]

\* vic: the last bank-select bits notified, and whether the last operation
\* requested a light-pen interrupt.
VicIdle(v) == [v EXCEPT !.lp_irq = FALSE]

on_va_change(v, bits) == [v EXCEPT !.va = bits]

trigger_lp_irq(v) == [v EXCEPT !.lp_irq = TRUE]

\* get_ram_bank(MemType::Io).write(addr, value)
MemWrite(m, addr, value) ==
    [a \in (DOMAIN m) \cup {addr} |-> IF a = addr THEN value ELSE m[a]]

----------------------------------------------------------------------------
(* CIA                                                                     *)

CIA1_BASE == 56320     \* 0xDC00
CIA2_BASE == 56576     \* 0xDD00

Matrix8(v) == [i \in 0 .. 7 |-> v]

new_shared(is_cia1) ==
    [ is_cia1      |-> is_cia1,
      timer_a      |-> CIATimer_new(TRUE),
      timer_b      |-> CIATimer_new(FALSE),
      irq_mask     |-> 0,
      icr          |-> 0,
      pra          |-> 0,
      prb          |-> 0,
      ddra         |-> 0,
      ddrb         |-> 0,
      sdr          |-> 0,
      tod_halt     |-> FALSE,
      tod_freq_div |-> 0,
      tod_hour     |-> 0,
      tod_min      |-> 0,
      tod_sec      |-> 0,
      tod_dsec     |-> 0,
      alarm_hour   |-> 0,
      alarm_min    |-> 0,
      alarm_sec    |-> 0,
      alarm_dsec   |-> 0,
      key_matrix   |-> Matrix8(255),
      rev_matrix   |-> Matrix8(255),
      joystick_1   |-> 255,
      joystick_2   |-> 255,
      prev_lp      |-> 16,
      iec_lines    |-> 208 ]

reset(c) ==
    [ c EXCEPT !.timer_a      = CIATimer_reset(c.timer_a),
               !.timer_b      = CIATimer_reset(c.timer_b),
               !.irq_mask     = 0,
               !.icr          = 0,
               !.pra          = 0,
               !.prb          = 0,
               !.ddra         = 0,
               !.ddrb         = 0,
               !.sdr          = 0,
               !.tod_halt     = FALSE,
               !.tod_freq_div = 0,
               !.tod_hour     = 0,
               !.tod_min      = 0,
               !.tod_sec      = 0,
               !.tod_dsec     = 0,
               !.alarm_hour   = 0,
               !.alarm_min    = 0,
               !.alarm_sec    = 0,
               !.alarm_dsec   = 0,
               !.key_matrix   = Matrix8(255),
               !.rev_matrix   = Matrix8(255),
               !.joystick_1   = 255,
               !.joystick_2   = 255,
               !.prev_lp      = 16,
               !.iec_lines    = 208 ]

update(c) ==
    LET a == CIATimer_update(c.timer_a, c.icr, FALSE)
        ta_underflow == a.t.underflow
        b == CIATimer_update(c.timer_b, a.icr, ta_underflow)
    IN [c EXCEPT !.timer_a = a.t, !.timer_b = b.t, !.icr = b.icr]

\* trigger_irq without the test of irq_mask: every source raises the summary
trigger_irq_unmasked(c, mask) ==
    [cia |-> [c EXCEPT !.icr = Or(Or(@, mask), 128)], ret |-> TRUE]

\* trigger_irq that tests the mask against everything pending instead of
\* against the source being raised
trigger_irq_any_pending(c, mask) ==
    LET c1 == [c EXCEPT !.icr = Or(@, mask)]
    IN IF And(c1.irq_mask, c1.icr) # 0
       THEN [cia |-> [c1 EXCEPT !.icr = Or(@, 128)], ret |-> TRUE]
       ELSE [cia |-> c1, ret |-> FALSE]

\* true - irq triggered; false - not
trigger_irq(c, mask) ==
    LET c1 == [c EXCEPT !.icr = Or(@, mask)]
    IN IF And(c1.irq_mask, mask) # 0
       THEN [cia |-> [c1 EXCEPT !.icr = Or(@, 128)], ret |-> TRUE]
       ELSE [cia |-> c1, ret |-> FALSE]

\* if self.is_cia1 { set_cia_irq(true) } else { set_nmi(true) }
SignalCpu(c, p) == IF c.is_cia1 THEN set_cia_irq(p, TRUE) ELSE set_nmi(p, TRUE)

\* if self.is_cia1 { Callback::TriggerCIAIrq } else { Callback::TriggerNMI }
TriggerCallback(c) == IF c.is_cia1 THEN "TriggerCIAIrq" ELSE "TriggerNMI"

\* if self.is_cia1 { Callback::ClearCIAIrq } else { Callback::ClearNMI }
ClearCallback(c) == IF c.is_cia1 THEN "ClearCIAIrq" ELSE "ClearNMI"

Panic(w) == [w EXCEPT !.panic = TRUE]

\* a fold that keeps three address bits instead of four
Fold_mod8(addr) == (addr \div 256) * 256 + (addr % 8)

\* (addr & 0xFF00) + (addr % 0x0010)
Fold(addr) == (addr \div 256) * 256 + (addr % 16)

\* the eight `if tst & (1 << i) == 0 { retval &= matrix[i]; }` lines
RECURSIVE MatrixScan(_, _, _, _)
MatrixScan(rv, tst, matrix, i) ==
    IF i > 7 THEN rv
    ELSE MatrixScan(IF And(tst, 2 ^ i) = 0 THEN And(rv, matrix[i]) ELSE rv,
                    tst, matrix, i + 1)

RECURSIVE read_cia1_register(_, _)
read_cia1_register(w, addr) ==
    LET c == w.cia IN
    CASE addr = CIA1_BASE ->
           LET rv  == Or(c.pra, Not8(c.ddra))
               tst == And(Or(c.prb, Not8(c.ddrb)), c.joystick_1)
           IN [w EXCEPT !.ret =
                 And(MatrixScan(rv, tst, c.rev_matrix, 0), c.joystick_2)]
      [] addr = CIA1_BASE + 1 ->
           LET rv  == Not8(c.ddrb)
               tst == And(Or(c.pra, Not8(c.ddra)), c.joystick_2)
           IN [w EXCEPT !.ret =
                 And(Or(MatrixScan(rv, tst, c.key_matrix, 0),
                        And(c.prb, c.ddrb)), c.joystick_1)]
      [] addr \in (CIA1_BASE + 16) .. (CIA1_BASE + 255) ->
           read_cia1_register(w, CIA1_BASE + (addr % 16))
      [] OTHER -> Panic(w)

RECURSIVE read_cia2_register(_, _)
read_cia2_register(w, addr) ==
    LET c == w.cia IN
    CASE addr = CIA2_BASE ->
           [w EXCEPT !.ret =
              Or(And(Or(c.pra, Not8(c.ddra)), 63), c.iec_lines)]
      [] addr = CIA2_BASE + 1 ->
           [w EXCEPT !.ret = Or(c.prb, Not8(c.ddrb))]
      [] addr \in (CIA2_BASE + 16) .. (CIA2_BASE + 255) ->
           read_cia2_register(w, CIA2_BASE + (addr % 16))
      [] OTHER -> Panic(w)

\* a read of 0x0D that clears the source bits and keeps the summary bit
ReadIcr_sources_only(w) ==
    [w EXCEPT !.cia.icr = And(@, 128),
              !.cb = ClearCallback(w.cia),
              !.ret = w.cia.icr]

\* lines 351-356: the 0x0D arm of read_register
ReadIcr(w) ==
    [w EXCEPT !.cia.icr = 0,
              !.cb = ClearCallback(w.cia),
              !.ret = w.cia.icr]

RECURSIVE read_register(_, _)
read_register(w, addr) ==
    LET c == w.cia
        k == addr % 256
    IN
    CASE k = 2  -> [w EXCEPT !.ret = c.ddra]
      [] k = 3  -> [w EXCEPT !.ret = c.ddrb]
      [] k = 4  -> [w EXCEPT !.ret = AsU8(c.timer_a.value)]
      [] k = 5  -> [w EXCEPT !.ret = AsU8(Shr(c.timer_a.value, 8))]
      [] k = 6  -> [w EXCEPT !.ret = AsU8(c.timer_b.value)]
      [] k = 7  -> [w EXCEPT !.ret = AsU8(Shr(c.timer_b.value, 8))]
      [] k = 8  -> [w EXCEPT !.cia.tod_halt = FALSE, !.ret = c.tod_dsec]
      [] k = 9  -> [w EXCEPT !.ret = c.tod_sec]
      [] k = 10 -> [w EXCEPT !.ret = c.tod_min]
      [] k = 11 -> [w EXCEPT !.cia.tod_halt = TRUE, !.ret = c.tod_hour]
      [] k = 12 -> [w EXCEPT !.ret = c.sdr]
      [] k = 13 -> ReadIcr(w)
      [] k = 14 -> [w EXCEPT !.ret = c.timer_a.ctrl]
      [] k = 15 -> [w EXCEPT !.ret = c.timer_b.ctrl]
      [] k \in 16 .. 255 -> read_register(w, Fold(addr))
      [] OTHER -> IF c.is_cia1 THEN read_cia1_register(w, addr)
                               ELSE read_cia2_register(w, addr)

----------------------------------------------------------------------------
(* Register writes                                                         *)

check_lp(w) ==
    LET c   == w.cia
        cur == And(Or(c.prb, Not8(c.ddrb)), 16)
    IN [w EXCEPT !.vic = IF cur # c.prev_lp THEN trigger_lp_irq(@) ELSE @,
                 !.cia.prev_lp = cur]

\* !(self.pra | !self.ddra) & 3
VaBits(c) == And(Not8(Or(c.pra, Not8(c.ddra))), 3)

RECURSIVE write_cia1_register(_, _, _)
write_cia1_register(w, addr, value) ==
    CASE addr = CIA1_BASE ->
           [w EXCEPT !.cia.pra = value, !.mem = MemWrite(@, addr, value)]
      [] addr = CIA1_BASE + 1 ->
           LET w1 == check_lp([w EXCEPT !.cia.prb = value])
           IN [w1 EXCEPT !.mem = MemWrite(@, addr, value)]
      [] addr = CIA1_BASE + 2 ->
           [w EXCEPT !.cia.ddra = value, !.mem = MemWrite(@, addr, value)]
      [] addr = CIA1_BASE + 3 ->
           check_lp([w EXCEPT !.cia.ddrb = value,
                              !.mem = MemWrite(@, addr, value)])
      [] addr \in (CIA1_BASE + 16) .. (CIA1_BASE + 255) ->
           write_cia1_register(w, CIA1_BASE + (addr % 16), value)
      [] OTHER -> Panic(w)

RECURSIVE write_cia2_register(_, _, _)
write_cia2_register(w, addr, value) ==
    CASE addr = CIA2_BASE ->
           LET w1 == [w EXCEPT !.cia.pra = value]
           IN [w1 EXCEPT !.vic = on_va_change(@, VaBits(w1.cia)),
                         !.mem = MemWrite(@, addr, value)]
      [] addr = CIA2_BASE + 1 ->
           [w EXCEPT !.cia.prb = value, !.mem = MemWrite(@, addr, value)]
      [] addr = CIA2_BASE + 2 ->
           LET w1 == [w EXCEPT !.cia.ddra = value]
           IN [w1 EXCEPT !.vic = on_va_change(@, VaBits(w1.cia)),
                         !.mem = MemWrite(@, addr, value)]
      [] addr = CIA2_BASE + 3 ->
           [w EXCEPT !.cia.ddrb = value, !.mem = MemWrite(@, addr, value)]
      [] addr \in (CIA2_BASE + 16) .. (CIA2_BASE + 255) ->
           write_cia2_register(w, CIA2_BASE + (addr % 16), value)
      [] OTHER -> Panic(w)

\* (latch & 0xFF00) | value   and   (latch & 0x00FF) | (value << 8)
SetLo(latch, value) == (latch \div 256) * 256 + value
SetHi(latch, value) == (latch % 256) + value * 256

\* the 0x04 / 0x06 and 0x05 / 0x07 arms, on one timer
WriteLatchLo(t, value) == [t EXCEPT !.latch = SetLo(t.latch, value)]

\* a high-byte write that reloads the live value whether or not the timer runs
WriteLatchHi_always(t, value) ==
    LET t1 == [t EXCEPT !.latch = SetHi(t.latch, value)]
    IN [t1 EXCEPT !.value = t1.latch]

WriteLatchHi(t, value) ==
    LET t1 == [t EXCEPT !.latch = SetHi(t.latch, value)]
    IN IF And(t1.ctrl, 1) = 0 THEN [t1 EXCEPT !.value = t1.latch] ELSE t1

\* a control write that takes effect at once instead of being staged
WriteCtrlA_immediate(t, value) ==
    [t EXCEPT !.ctrl = And(value, 239),
              !.new_ctrl = value,
              !.is_cnt_phi2 = (And(value, 32) = 0)]

\* the 0x0E and 0x0F arms
WriteCtrlA(t, value) ==
    [t EXCEPT !.has_new_ctrl = TRUE,
              !.new_ctrl = value,
              !.is_cnt_phi2 = (And(value, 32) = 0)]

WriteCtrlB(t, value) ==
    [t EXCEPT !.has_new_ctrl = TRUE,
              !.new_ctrl = value,
              !.is_cnt_phi2 = (And(value, 96) = 0),
              !.cnt_ta_underflow = (And(value, 96) = 64)]

\* a mask write that stores the low seven bits instead of setting or
\* clearing the bits named by the value
WriteIcr_assign(w, value) ==
    LET c  == w.cia
        m1 == And(value, 127)
    IN IF And(And(c.icr, m1), 31) # 0
       THEN [w EXCEPT !.cia.irq_mask = m1,
                      !.cia.icr = Or(@, 128),
                      !.cb = TriggerCallback(c)]
       ELSE [w EXCEPT !.cia.irq_mask = m1]

\* the 0x0D arm, up to the store into the I/O bank
WriteIcr(w, value) ==
    LET c  == w.cia
        m1 == IF And(value, 128) # 0 THEN Or(c.irq_mask, And(value, 127))
                                     ELSE And(c.irq_mask, Not8(value))
    IN IF And(And(c.icr, m1), 31) # 0
       THEN [w EXCEPT !.cia.irq_mask = m1,
                      !.cia.icr = Or(@, 128),
                      !.cb = TriggerCallback(c)]
       ELSE [w EXCEPT !.cia.irq_mask = m1]

\* a write of 0x08..0x0B that always sets the clock, whatever timer B's
\* control byte says
WriteTod_clock_only(c, k, value) ==
    CASE k = 8  -> [c EXCEPT !.tod_dsec = And(value, 15)]
      [] k = 9  -> [c EXCEPT !.tod_sec = And(value, 127)]
      [] k = 10 -> [c EXCEPT !.tod_min = And(value, 127)]
      [] k = 11 -> [c EXCEPT !.tod_hour = And(value, 159)]

\* the 0x08..0x0B arms: alarm or clock, by bit 7 of timer B's control
WriteTod(c, k, value) ==
    LET alarm == And(c.timer_b.ctrl, 128) # 0 IN
    CASE k = 8  -> IF alarm THEN [c EXCEPT !.alarm_dsec = And(value, 15)]
                            ELSE [c EXCEPT !.tod_dsec = And(value, 15)]
      [] k = 9  -> IF alarm THEN [c EXCEPT !.alarm_sec = And(value, 127)]
                            ELSE [c EXCEPT !.tod_sec = And(value, 127)]
      [] k = 10 -> IF alarm THEN [c EXCEPT !.alarm_min = And(value, 127)]
                            ELSE [c EXCEPT !.tod_min = And(value, 127)]
      [] k = 11 -> IF alarm THEN [c EXCEPT !.alarm_hour = And(value, 159)]
                            ELSE [c EXCEPT !.tod_hour = And(value, 159)]

write_register(w, addr, value) ==
    LET c == w.cia
        k == addr % 256
    IN
    CASE k = 4 ->
           [w EXCEPT !.cia.timer_a = WriteLatchLo(@, value),
                     !.mem = MemWrite(@, addr, value)]
      [] k = 5 ->
           [w EXCEPT !.cia.timer_a = WriteLatchHi(@, value),
                     !.mem = MemWrite(@, addr, value)]
      [] k = 6 ->
           [w EXCEPT !.cia.timer_b = WriteLatchLo(@, value),
                     !.mem = MemWrite(@, addr, value)]
      [] k = 7 ->
           [w EXCEPT !.cia.timer_b = WriteLatchHi(@, value),
                     !.mem = MemWrite(@, addr, value)]
      [] k \in 8 .. 11 ->
           [w EXCEPT !.cia = WriteTod(@, k, value),
                     !.mem = MemWrite(@, addr, value)]
      [] k = 12 ->
           LET r == trigger_irq([c EXCEPT !.sdr = value], 8)
           IN [w EXCEPT !.cia = r.cia,
                        !.cb = IF r.ret THEN TriggerCallback(c) ELSE @]
      [] k = 13 ->
           LET w1 == WriteIcr(w, value)
           IN [w1 EXCEPT !.mem = MemWrite(@, addr, value)]
      [] k = 14 ->
           [w EXCEPT !.cia.timer_a = WriteCtrlA(@, value),
                     !.mem = MemWrite(@, addr, value)]
      [] k = 15 ->
           [w EXCEPT !.cia.timer_b = WriteCtrlB(@, value),
                     !.mem = MemWrite(@, addr, value)]
      [] OTHER ->
           IF c.is_cia1 THEN write_cia1_register(w, addr, value)
                        ELSE write_cia2_register(w, addr, value)

----------------------------------------------------------------------------
(* Interrupt delivery and the time-of-day clock                            *)

\* one `if self.<timer>.irq_next_cycle { ... }` block of process_irq: the
\* source raised, and the flag of timer A cleared
IrqBlock(w, source) ==
    LET r == trigger_irq(w.cia, source)
    IN [w EXCEPT !.cia = [r.cia EXCEPT !.timer_a.irq_next_cycle = FALSE],
                 !.cpu = IF r.ret THEN SignalCpu(r.cia, @) ELSE @]

process_irq(w) ==
    LET w1 == IF w.cia.timer_a.irq_next_cycle THEN IrqBlock(w, 1) ELSE w
    IN IF w1.cia.timer_a.irq_next_cycle THEN IrqBlock(w1, 2) ELSE w1

\* a digit step that forgets the carry out of the low digit
BcdStep_nocarry(field) == <<And(field, 15) + 1, Shr(field, 4)>>

\* one BCD digit pair plus one: <<lo, hi>> after the carry out of lo
BcdStep(field) ==
    LET lo == And(field, 15) + 1
        hi == Shr(field, 4)
    IN IF lo > 9 THEN <<0, hi + 1>> ELSE <<lo, hi>>

\* (hi << 4) | lo
Pack(d) == Or(Shl8(d[2], 4), d[1])

\* lines 549-560: the hour step
HourStep(c) ==
    LET h1 == Or(c.tod_hour, Pack(BcdStep(c.tod_hour)))
    IN IF And(h1, 31) > 17 THEN Xor(And(h1, 128), 128) ELSE h1

\* lines 523-569: deciseconds plus one, with the carries
TodAdvance(c) ==
    LET c1 == [c EXCEPT !.tod_dsec = @ + 1] IN
    IF c1.tod_dsec > 9
    THEN LET c2 == [c1 EXCEPT !.tod_dsec = 0]
             s  == BcdStep(c2.tod_sec)
         IN IF s[2] > 5
            THEN LET c3 == [c2 EXCEPT !.tod_sec = 0]
                     m  == BcdStep(c3.tod_min)
                 IN IF m[2] > 5
                    THEN LET c4 == [c3 EXCEPT !.tod_min = 0]
                         IN [c4 EXCEPT !.tod_hour = HourStep(c4)]
                    ELSE [c3 EXCEPT !.tod_min = Pack(m)]
            ELSE [c2 EXCEPT !.tod_sec = Pack(s)]
    ELSE c1

\* a count_tod whose alarm comparison leaves the deciseconds out
count_tod_no_dsec(w) ==
    LET c == w.cia IN
    IF c.tod_freq_div # 0
    THEN [w EXCEPT !.cia.tod_freq_div = @ - 1]
    ELSE LET c1 == [c EXCEPT !.tod_freq_div =
                       IF And(c.timer_a.ctrl, 128) # 0 THEN 4 ELSE 5]
             c2 == TodAdvance(c1)
         IN IF c2.tod_sec = c2.alarm_sec
               /\ c2.tod_min = c2.alarm_min /\ c2.tod_hour = c2.alarm_hour
            THEN LET r == trigger_irq(c2, 4)
                 IN [w EXCEPT !.cia = r.cia,
                              !.cpu = IF r.ret THEN SignalCpu(r.cia, @) ELSE @]
            ELSE [w EXCEPT !.cia = c2]

count_tod(w) ==
    LET c == w.cia IN
    IF c.tod_freq_div # 0
    THEN [w EXCEPT !.cia.tod_freq_div = @ - 1]
    ELSE LET c1 == [c EXCEPT !.tod_freq_div =
                       IF And(c.timer_a.ctrl, 128) # 0 THEN 4 ELSE 5]
             c2 == TodAdvance(c1)
         IN IF c2.tod_dsec = c2.alarm_dsec /\ c2.tod_sec = c2.alarm_sec
               /\ c2.tod_min = c2.alarm_min /\ c2.tod_hour = c2.alarm_hour
            THEN LET r == trigger_irq(c2, 4)
                 IN [w EXCEPT !.cia = r.cia,
                              !.cpu = IF r.ret THEN SignalCpu(r.cia, @) ELSE @]
            ELSE [w EXCEPT !.cia = c2]

----------------------------------------------------------------------------
(* The state machine: one action per call of a public method of the chip.  *)

\* The state a call starts from: the collaborators' per-call records are
\* cleared, the callback cell holds Callback::None and nothing is returned.
World ==
    [ cia   |-> cia,
      cpu   |-> CpuIdle(cpu),
      vic   |-> VicIdle(vic),
      mem   |-> mem,
      cb    |-> "None",
      ret   |-> -1,
      panic |-> panicked ]

\* History of a one-shot run of timer A.  A run starts when 0x09 (run,
\* phi2, one-shot) is written to 0x0E while timer A is stopped with
\* value = latch = n >= 1 and no control write is staged; it is abandoned by
\* any other write to a register of timer A and by reset.  counted is the
\* number of update() calls since the start that timer A evaluated in a
\* counting state with its count input active.
NoShot == [on |-> FALSE, n |-> 0, counted |-> 0]

ShotTrack(s, c, o) ==
    LET t == c.timer_a
        k == o[2] % 256
    IN
    CASE o[1] = "write" /\ k = 14 ->
           IF /\ o[3] = 9
              /\ t.state = "Stop" /\ ~t.has_new_ctrl /\ And(t.ctrl, 1) = 0
              /\ t.value = t.latch /\ t.latch >= 1
           THEN [on |-> TRUE, n |-> t.latch, counted |-> 0]
           ELSE NoShot
      [] o[1] = "write" /\ k \in {4, 5} -> NoShot
      [] o[1] = "reset" -> NoShot
      [] o[1] = "run" /\ o[3] = 1 -> NoShot
      [] o[1] \in {"update", "run"} /\ s.on ->
           IF t.state \in {"Count", "CountStop"} /\ t.is_cnt_phi2
           THEN [s EXCEPT !.counted = @ + 1]
           ELSE s
      [] OTHER -> s

\* History of timer A since it was started or since it last underflowed.
\* phase "start": the run bit, with phi2 selected, was written to 0x0E while
\* timer A was in Stop with no control byte staged; load tells whether
\* force-load was written with it and n counts the update() calls since,
\* up to 4.  phase "period": timer A underflowed in Count (the update took
\* it from Count to LoadCount) while running continuously on phi2 with no
\* control byte staged; n counts the update() calls since that underflow
\* and full tells that the underflow ended a period followed from the
\* underflow before it.
\* Any write to a register of timer A, and reset, ends the history.
NoTrack == [phase |-> "none", load |-> FALSE, n |-> 0, full |-> FALSE]

\* History of the time-of-day clock: the number of count_tod() calls since
\* the last one that advanced tod_dsec; -1 before the first advance, after
\* reset and after a change of the 50/60 Hz bit (bit 7 of timer A's ctrl).
NoTod == -1

TodTrack(n, c, c2, o) ==
    CASE o[1] = "count_tod" ->
           IF c2.tod_dsec # c.tod_dsec THEN 0
           ELSE IF n >= 0 THEN n + 1 ELSE n
      [] o[1] = "reset" -> NoTod
      [] o[1] \in {"update", "run"} ->
           IF And(c2.timer_a.ctrl, 128) # And(c.timer_a.ctrl, 128)
           THEN NoTod ELSE n
      [] OTHER -> n

Track(s, c, c2, o) ==
    LET t  == c.timer_a
        t2 == c2.timer_a
        k  == o[2] % 256
    IN
    CASE o[1] = "write" /\ k = 14 ->
           IF /\ And(o[3], 1) # 0 /\ And(o[3], 32) = 0
              /\ t.state = "Stop" /\ ~t.has_new_ctrl
           THEN [phase |-> "start", load |-> And(o[3], 16) # 0, n |-> 0,
                 full |-> FALSE]
           ELSE NoTrack
      [] o[1] = "write" /\ k \in {4, 5} -> NoTrack
      [] o[1] = "reset" -> NoTrack
      [] o[1] = "run" /\ o[3] = 1 -> NoTrack
      [] o[1] \in {"update", "run"} ->
           IF /\ t.state = "Count" /\ t2.state = "LoadCount"
              /\ ~t2.has_new_ctrl /\ t2.is_cnt_phi2
              /\ And(t2.ctrl, 1) # 0 /\ And(t2.ctrl, 8) = 0
           THEN [phase |-> "period", load |-> FALSE, n |-> 0,
                 full |-> (s.phase = "period")]
           ELSE IF s.phase = "start"
                THEN [s EXCEPT !.n = IF @ < 4 THEN @ + 1 ELSE @]
                ELSE IF s.phase = "period"
                     THEN IF t.state = "Count" /\ t2.state # "Count"
                          THEN NoTrack
                          ELSE [s EXCEPT !.n = @ + 1]
                     ELSE s
      [] OTHER -> s

\* The state a call ends in.  A process that panicked performs nothing more.
Commit(w, o) ==
    /\ ~panicked
    /\ cia' = w.cia
    /\ cpu' = w.cpu
    /\ vic' = w.vic
    /\ mem' = w.mem
    /\ callback' = w.cb
    /\ retval' = w.ret
    /\ panicked' = w.panic
    /\ op' = o
    /\ steps' = steps + 1
    /\ shot' = IF w.panic THEN shot ELSE ShotTrack(shot, cia, o)
    /\ track' = IF w.panic THEN track ELSE Track(track, cia, w.cia, o)
    /\ todn' = IF w.panic THEN todn ELSE TodTrack(todn, cia, w.cia, o)

Init ==
    /\ cia \in {new_shared(TRUE), new_shared(FALSE)}
    /\ cpu = [cia_irq |-> FALSE, nmi |-> FALSE, irq_calls |-> 0, nmi_calls |-> 0]
    /\ vic = [va |-> -1, lp_irq |-> FALSE]
    /\ mem = <<>>
    /\ callback = "None"
    /\ retval = -1
    /\ panicked = FALSE
    /\ op = <<"new", 0, 0>>
    /\ steps = 0
    /\ shot = NoShot
    /\ track = NoTrack
    /\ todn = NoTod

Update == Commit([World EXCEPT !.cia = update(@)], <<"update", 0, 0>>)

ProcessIrq == Commit(process_irq(World), <<"process_irq", 0, 0>>)

CountTod == Commit(count_tod(World), <<"count_tod", 0, 0>>)

Reset == Commit([World EXCEPT !.cia = reset(@)], <<"reset", 0, 0>>)

ReadRegister(addr) == Commit(read_register(World, addr), <<"read", addr, 0>>)

WriteRegister(addr, value) ==
    Commit(write_register(World, addr, value), <<"write", addr, value>>)

\* the page of this chip instance, and the address of register k in it
Base == IF cia.is_cia1 THEN CIA1_BASE ELSE CIA2_BASE
Reg(k) == Base + k

\* what the last operation was
Did(name) == op[1] = name
DidReg(name, k) == op[1] = name /\ op[2] % 256 = k

----------------------------------------------------------------------------
(* Specification of the interrupt path: timer underflows, the serial data  *)
(* register and the alarm raise sources; the mask is written, the          *)
(* interrupt register is read.                                             *)

MaxStepsIrq == 7

IrqOk == steps < MaxStepsIrq

\* 0x81: enable timer A; 0x8E: enable timer B, alarm and serial;
\* 0x1F: disable all five sources
IrqMaskBytes == {129, 142, 31}

\* 0x11: run, force load; 0x80 (timer B): TOD writes go to the alarm
IrqCtrlBytes == {17, 128}

NextIrq ==
    \/ IrqOk /\ Update
    \/ IrqOk /\ ProcessIrq
    \/ IrqOk /\ CountTod
    \/ IrqOk /\ ReadRegister(Reg(13))
    \/ IrqOk /\ \E v \in IrqMaskBytes : WriteRegister(Reg(13), v)
    \/ IrqOk /\ WriteRegister(Reg(14), 17)
    \/ IrqOk /\ \E v \in IrqCtrlBytes : WriteRegister(Reg(15), v)
    \/ IrqOk /\ WriteRegister(Reg(12), 85)
    \/ IrqOk /\ WriteRegister(Reg(8), 1)

SpecIrq == Init /\ [][NextIrq]_vars

\* shorthands on the interrupt registers
Summary(c) == And(c.icr, 128) # 0
EnabledPending(c) == And(And(c.icr, c.irq_mask), 31) # 0

\* C1 (as stated): in every reachable state bit 7 of icr is set if and only
\* if (icr & irq_mask & 0x1F) != 0.
C1_SummaryIffEnabledPending == Summary(cia) <=> EnabledPending(cia)

\* C1 (amended): the summary bit goes from clear to set only in an operation
\* after which (icr & irq_mask & 0x1F) != 0; after every write to register
\* 0x0D it is set if (icr & irq_mask & 0x1F) != 0; and it is cleared only
\* together with the whole of icr.
C1_SummaryRaisedOnlyWhenEnabled ==
    [][ /\ (~Summary(cia) /\ Summary(cia')) => EnabledPending(cia')
        /\ (op'[1] = "write" /\ op'[2] % 256 = 13 /\ EnabledPending(cia'))
              => Summary(cia')
        /\ (Summary(cia) /\ ~Summary(cia')) => cia'.icr = 0 ]_vars

\* C1 witness: a write to the serial data register has raised the summary
\* bit for an enabled source, and a later mask write has found it pending.
C1_Witness ==
    /\ DidReg("write", 13)
    /\ Summary(cia)
    /\ EnabledPending(cia)
    /\ callback \in {"TriggerCIAIrq", "TriggerNMI"}

\* the number of times the last operation signalled this chip's CPU line
Signals(c, p) == IF c.is_cia1 THEN p.irq_calls ELSE p.nmi_calls

\* C3: every process_irq call delivers both timers: each timer whose
\* irq_next_cycle flag is set has its source (1 for A, 2 for B) raised, the
\* CPU is signalled once for each source that is enabled in irq_mask (with
\* the summary bit set), and both flags are false after the call.
C3_BothTimersDelivered ==
    [][ op'[1] = "process_irq" =>
          LET a  == cia.timer_a.irq_next_cycle
              b  == cia.timer_b.irq_next_cycle
              ea == a /\ And(cia.irq_mask, 1) # 0
              eb == b /\ And(cia.irq_mask, 2) # 0
              raised == Or(Or(IF a THEN 1 ELSE 0, IF b THEN 2 ELSE 0),
                           IF ea \/ eb THEN 128 ELSE 0)
          IN /\ ~cia'.timer_a.irq_next_cycle
             /\ ~cia'.timer_b.irq_next_cycle
             /\ cia'.icr = Or(cia.icr, raised)
             /\ Signals(cia', cpu') = (IF ea THEN 1 ELSE 0) + (IF eb THEN 1 ELSE 0)
      ]_vars

----------------------------------------------------------------------------
(* Specification of the two timers: control bytes are written, the timers  *)
(* are updated, timer B may count the underflows of timer A.               *)

MaxStepsTimer == 7

TimerOk == steps < MaxStepsTimer

\* 0x00 stop; 0x01 run; 0x09 run, one-shot; 0x11 run, force load
CtrlBytesA == {0, 1, 9, 17}

\* 0x00 stop; 0x11 run, force load; 0x41 run, count underflows of timer A
CtrlBytesB == {0, 17, 65}

NextTimer ==
    \/ TimerOk /\ Update
    \/ TimerOk /\ ProcessIrq
    \/ TimerOk /\ \E v \in CtrlBytesA : WriteRegister(Reg(14), v)
    \/ TimerOk /\ \E v \in CtrlBytesB : WriteRegister(Reg(15), v)
    \/ TimerOk /\ \E k \in {5, 7} : WriteRegister(Reg(k), 0)

SpecTimer == Init /\ [][NextTimer]_vars

\* whether timer A underflows in the update() that starts in chip state c:
\* its step, run with the underflow flag lowered, raises the flag
AUnderflowsNow(c) ==
    CIATimer_update([c.timer_a EXCEPT !.underflow = FALSE], c.icr, FALSE).t.underflow

\* timer B counts underflows of timer A (control bits 5-6 = 0x40, in
\* effect and not being rewritten) and is in a counting state
CascadeCounting(c) ==
    /\ And(c.timer_b.ctrl, 96) = 64
    /\ ~c.timer_b.has_new_ctrl
    /\ c.timer_b.cnt_ta_underflow
    /\ ~c.timer_b.is_cnt_phi2
    /\ c.timer_b.state \in {"Count", "CountStop"}

\* C2: with timer B in cascade mode and counting, an update() changes timer
\* B's value only if timer A underflowed during that same update().
C2_CascadeOnlyOnUnderflow ==
    [][ (op'[1] = "update" /\ CascadeCounting(cia)
            /\ cia'.timer_b.value # cia.timer_b.value)
          => AUnderflowsNow(cia) ]_vars

\* C6: a write to a timer control register (0x0E, 0x0F) leaves that timer's
\* state, effective control byte and value as they are and only stages the
\* byte (new_ctrl, has_new_ctrl); the update() that follows folds the staged
\* byte into ctrl (force-load bit stripped, run bit possibly cleared by a
\* one-shot) and lowers has_new_ctrl.
C6_CtrlWriteIsStaged ==
    [][ /\ \A n \in {"timer_a", "timer_b"} :
             (op'[1] = "write"
                /\ op'[2] % 256 = (IF n = "timer_a" THEN 14 ELSE 15))
             => /\ cia'[n].state = cia[n].state
                /\ cia'[n].ctrl = cia[n].ctrl
                /\ cia'[n].value = cia[n].value
                /\ cia'[n].has_new_ctrl
                /\ cia'[n].new_ctrl = op'[3]
        /\ \A n \in {"timer_a", "timer_b"} :
             (op'[1] = "update" /\ cia[n].has_new_ctrl)
             => /\ ~cia'[n].has_new_ctrl
                /\ cia'[n].ctrl = And(cia'[n].new_ctrl, 239)
                /\ And(cia'[n].ctrl, 238) = And(cia[n].new_ctrl, 238) ]_vars

\* C6 witness: a stop byte was written to timer A while it counts; the timer
\* is still in Count with the run bit in ctrl, the byte is staged.
C6_Witness ==
    /\ DidReg("write", 14)
    /\ cia.timer_a.state = "Count"
    /\ cia.timer_a.has_new_ctrl
    /\ cia.timer_a.new_ctrl = 0
    /\ cia.timer_a.ctrl = 1

----------------------------------------------------------------------------
(* Specification of the latch registers: the low and high latch bytes of   *)
(* both timers are written while the timers are stopped or running.        *)

MaxStepsLatch == 5

LatchOk == steps < MaxStepsLatch

LatchLoBytes == {52, 255}     \* 0x34, 0xFF
LatchHiBytes == {18, 0}       \* 0x12, 0x00

NextLatch ==
    \/ LatchOk /\ Update
    \/ LatchOk /\ \E k \in {4, 6}, v \in LatchLoBytes : WriteRegister(Reg(k), v)
    \/ LatchOk /\ \E k \in {5, 7}, v \in LatchHiBytes : WriteRegister(Reg(k), v)
    \/ LatchOk /\ \E k \in {14, 15}, v \in {0, 1} : WriteRegister(Reg(k), v)

SpecLatch == Init /\ [][NextLatch]_vars

\* C7: a write to a timer's high latch byte (0x05 / 0x07) sets the high byte
\* of latch and, when the effective run bit is clear, sets value to the new
\* latch at once; when the run bit is set it leaves value unchanged.  A
\* write to the low latch byte (0x04 / 0x06) sets the low byte of latch and
\* never changes value.
C7_LatchHighReloadsWhenStopped ==
    [][ \A n \in {"timer_a", "timer_b"} :
          LET lo == IF n = "timer_a" THEN 4 ELSE 6
              v  == op'[3]
          IN /\ (op'[1] = "write" /\ op'[2] % 256 = lo + 1)
                => /\ cia'[n].latch = v * 256 + (cia[n].latch % 256)
                   /\ (cia[n].ctrl % 2 = 0) => cia'[n].value = cia'[n].latch
                   /\ (cia[n].ctrl % 2 = 1) => cia'[n].value = cia[n].value
             /\ (op'[1] = "write" /\ op'[2] % 256 = lo)
                => /\ cia'[n].latch = (cia[n].latch \div 256) * 256 + v
                   /\ cia'[n].value = cia[n].value ]_vars

\* C7 witness: low byte 0x34 then high byte 0x12 written to stopped timer A:
\* the live value is 0x1234.
C7_Witness ==
    /\ op = <<"write", Reg(5), 18>>
    /\ cia.timer_a.ctrl % 2 = 0
    /\ cia.timer_a.latch = 4660
    /\ cia.timer_a.value = 4660

\* C7, second case reached: the high byte written to running timer B, whose
\* value is not the latch.
C7_WitnessRunning ==
    /\ op = <<"write", Reg(7), 18>>
    /\ cia.timer_b.ctrl % 2 = 1
    /\ cia.timer_b.latch \div 256 = 18
    /\ cia.timer_b.value # cia.timer_b.latch

----------------------------------------------------------------------------
(* Specification of a one-shot run of timer A: the latch is written, the   *)
(* timer is started in one-shot mode and updated until it has stopped.     *)

MaxLatch == 2

MaxStepsShot == 10

ShotOk == steps < MaxStepsShot

NextShot ==
    \/ ShotOk /\ Update
    \/ ShotOk /\ ProcessIrq
    \/ ShotOk /\ \E v \in 1 .. MaxLatch : WriteRegister(Reg(4), v)
    \/ ShotOk /\ WriteRegister(Reg(5), 0)
    \/ ShotOk /\ WriteRegister(Reg(14), 9)

SpecShot == Init /\ [][NextShot]_vars

\* C4: in a one-shot run of timer A started with value = latch = n >= 1,
\* the timer counts in exactly n updates: before the n-th the value is n
\* minus the number of counting updates and the timer runs; the n-th sets
\* source bit 0 in icr, clears the run bit of ctrl, reloads value to n and
\* leaves the timer in LoadStop; the next update leaves it in Stop, and no
\* later update counts again.
C4_OneShotRun ==
    /\ [](shot.on =>
            LET t == cia.timer_a IN
            /\ shot.counted <= shot.n
            /\ shot.counted < shot.n =>
                 /\ t.value = shot.n - shot.counted
                 /\ t.state \in {"Stop", "WaitCount", "Count"}
                 /\ t.state # "Stop" => And(t.ctrl, 1) = 1
            /\ shot.counted = shot.n =>
                 /\ t.value = shot.n
                 /\ And(t.ctrl, 1) = 0
                 /\ t.state \in {"LoadStop", "Stop"})
    /\ [][ (op'[1] = "update" /\ shot.on) =>
             /\ (shot'.counted = shot.n /\ shot.counted < shot.n)
                  => /\ And(cia'.icr, 1) = 1
                     /\ cia'.timer_a.irq_next_cycle
                     /\ cia'.timer_a.state = "LoadStop"
             /\ cia.timer_a.state = "LoadStop" => cia'.timer_a.state = "Stop"
             /\ shot.counted = shot.n
                  => cia'.timer_a.value = cia.timer_a.value ]_vars

\* C4 witness: the run with latch 2 has counted twice and stopped, and a
\* the update after the reload has left it in Stop with value 2.
C4_Witness ==
    /\ Did("update")
    /\ shot.on /\ shot.n = 2 /\ shot.counted = 2
    /\ cia.timer_a.state = "Stop"
    /\ cia.timer_a.value = 2
    /\ cia.timer_a.ctrl = 8
    /\ And(cia.icr, 1) = 1

----------------------------------------------------------------------------
(* Specification of the time-of-day clock: the clock fields are written,   *)
(* hours and deciseconds are read, the clock is advanced.                  *)

MaxStepsTod == 4

TodOk == steps < MaxStepsTod

\* the BCD encodings of 00 .. 59
Bcd60 == {16 * h + l : h \in 0 .. 5, l \in 0 .. 9}

\* the number a BCD byte encodes, and the BCD byte of a number below 100
BcdVal(b) == 10 * (b \div 16) + (b % 16)
BcdOf(n) == 16 * (n \div 10) + (n % 10)

TodMinBytes == {0, 9, 41, 89}      \* 0x00 0x09 0x29 0x59

NextTod ==
    \/ TodOk /\ CountTod
    \/ TodOk /\ \E k \in {8, 11} : ReadRegister(Reg(k))
    \/ TodOk /\ WriteRegister(Reg(8), 9)
    \/ TodOk /\ \E v \in Bcd60 : WriteRegister(Reg(9), v)
    \/ TodOk /\ \E v \in TodMinBytes : WriteRegister(Reg(10), v)

SpecTod == Init /\ [][NextTod]_vars

(* Specification of the halted clock: the clock is set just before the     *)
(* hour changes, hours and deciseconds are read, the clock is advanced.    *)

MaxStepsHalt == 6

HaltOk == steps < MaxStepsHalt

NextHalt ==
    \/ HaltOk /\ CountTod
    \/ HaltOk /\ \E k \in {8, 11} : ReadRegister(Reg(k))
    \/ HaltOk /\ WriteRegister(Reg(8), 9)
    \/ HaltOk /\ \E k \in {9, 10} : WriteRegister(Reg(k), 89)

SpecHalt == Init /\ [][NextHalt]_vars

\* C5: while tod_halt is true (hours read, deciseconds not read since),
\* count_tod does not change tod_hour.
C5_HaltFreezesHours ==
    [][ (op'[1] = "count_tod" /\ cia.tod_halt)
          => cia'.tod_hour = cia.tod_hour ]_vars

\* C10: when count_tod rolls deciseconds over from 9 to 0 with tod_sec and
\* tod_min valid BCD: from tod_sec = 0x59, tod_sec becomes 0x00 and tod_min
\* becomes its BCD successor (0x59 wrapping to 0x00); from any other
\* tod_sec, tod_sec becomes its BCD successor and tod_min and tod_hour are
\* unchanged.
C10_SecondsCarry ==
    [][ (/\ op'[1] = "count_tod"
         /\ cia.tod_freq_div = 0 /\ cia.tod_dsec = 9
         /\ cia.tod_sec \in Bcd60 /\ cia.tod_min \in Bcd60)
          => /\ cia'.tod_dsec = 0
             /\ IF cia.tod_sec = 89
                THEN /\ cia'.tod_sec = 0
                     /\ cia'.tod_min = BcdOf((BcdVal(cia.tod_min) + 1) % 60)
                ELSE /\ cia'.tod_sec = BcdOf(BcdVal(cia.tod_sec) + 1)
                     /\ cia'.tod_min = cia.tod_min
                     /\ cia'.tod_hour = cia.tod_hour ]_vars

\* C10 witness: from 00:09:59.9 the clock has advanced to 00:10:00.0.
C10_Witness ==
    /\ Did("count_tod")
    /\ cia.tod_dsec = 0 /\ cia.tod_sec = 0 /\ cia.tod_min = 16
    /\ cia.tod_hour = 0
    /\ mem = (Reg(8) :> 9 @@ Reg(9) :> 89 @@ Reg(10) :> 9)

----------------------------------------------------------------------------
(* Specification of the mirrored register block: registers are read and    *)
(* written at addresses of the chip's page with low byte 0x10 and above.   *)

MaxStepsMirror == 3

MirrorOk == steps < MaxStepsMirror

\* low bytes read: 0x0D and its mirrors 0x1D, 0xFD; the mirrors 0x18 and
\* 0x2B of the TOD registers, 0x10, 0x11 of the ports, 0x14, 0xFE of timer A
MirrorReads == {13, 29, 253, 24, 43, 16, 17, 20, 254}

\* low bytes written: the mirrors 0x10 .. 0x13 of ports and directions,
\* 0x14 of timer A's latch and 0xFD of the interrupt register
MirrorWrites == {16, 17, 18, 19, 20, 253}

NextMirror ==
    \/ MirrorOk /\ \E k \in MirrorReads : ReadRegister(Reg(k))
    \/ MirrorOk /\ \E k \in MirrorWrites : WriteRegister(Reg(k), 85)
    \/ MirrorOk /\ WriteRegister(Reg(12), 85)
    \/ MirrorOk /\ WriteRegister(Reg(13), 136)
    \/ MirrorOk /\ CountTod

SpecMirror == Init /\ [][NextMirror]_vars

\* C8: a read at any address of the chip's page with low byte k in
\* 0x10..0xFF returns the same value and has the same side effects as the
\* read at low byte k mod 16: for k mod 16 = 0x0D it returns icr, clears icr
\* and requests the acknowledge callback; for 0x08 it returns tod_dsec and
\* clears tod_halt; for 0x0B it returns tod_hour and sets tod_halt.
C8_ReadMirroring ==
    /\ [](\A k \in 16 .. 255 :
            read_register(World, Reg(k)) = read_register(World, Reg(k % 16)))
    /\ [][ (op'[1] = "read" /\ op'[2] % 256 >= 16) =>
             LET r == op'[2] % 16 IN
             /\ ~panicked'
             /\ r = 13 => /\ retval' = cia.icr
                          /\ cia' = [cia EXCEPT !.icr = 0]
                          /\ callback' = ClearCallback(cia)
             /\ r = 8  => /\ retval' = cia.tod_dsec
                          /\ cia' = [cia EXCEPT !.tod_halt = FALSE]
             /\ r = 11 => /\ retval' = cia.tod_hour
                          /\ cia' = [cia EXCEPT !.tod_halt = TRUE]
             /\ r \notin {8, 11, 13} => cia' = cia /\ callback' = "None" ]_vars

\* C8 witness: with the serial source pending and signalled (icr = 0x88), a
\* read at low byte 0x1D has returned 0x88, cleared icr and requested the
\* acknowledge.
C8_Witness ==
    /\ op = <<"read", Reg(29), 0>>
    /\ retval = 136
    /\ cia.icr = 0
    /\ callback = ClearCallback(cia)

\* C9: a write at any address of the chip's page with low byte k in
\* 0x10..0xFF completes without a fatal abort and leaves the chip, its
\* collaborators and the callback as the write of the same value at low
\* byte k mod 16 does.
C9_WriteMirroring ==
    \A k \in 16 .. 255, v \in {0, 85, 255} :
        LET m == write_register(World, Reg(k), v)
            d == write_register(World, Reg(k % 16), v)
        IN ~m.panic /\ m = d

----------------------------------------------------------------------------
(* Specification of the time-of-day clock started from valid BCD fields,   *)
(* the hours register included.                                            *)

MaxStepsBcd == 5

BcdOk == steps < MaxStepsBcd

TodHourBytes == {1, 9, 17, 129}      \* 0x01 0x09 0x11 0x81

NextBcd ==
    \/ BcdOk /\ CountTod
    \/ BcdOk /\ WriteRegister(Reg(8), 9)
    \/ BcdOk /\ \E k \in {9, 10} : WriteRegister(Reg(k), 89)
    \/ BcdOk /\ \E v \in TodHourBytes : WriteRegister(Reg(11), v)

SpecBcd == Init /\ [][NextBcd]_vars

\* the hour after h: the BCD successor of the hour digits (bits 0-4), the
\* AM/PM bit toggling when the digits wrap after 0x11
HourSucc(h) ==
    IF And(h, 31) = 17 THEN Xor(And(h, 128), 128)
    ELSE And(h, 128) + BcdOf(BcdVal(And(h, 31)) + 1)

\* C11: with the TOD fields at reset or written with valid BCD values,
\* after any number of count_tod calls tod_dsec is in 0..9, tod_sec and
\* tod_min are BCD in 00..59, the hour digits (bits 0-4 of tod_hour) are
\* BCD and bits 5-6 are clear; and a count_tod call that rolls the hour
\* over from h leaves the BCD successor of h.
C11_TodBcdValid ==
    /\ [](/\ cia.tod_dsec \in 0 .. 9
          /\ cia.tod_sec \in Bcd60
          /\ cia.tod_min \in Bcd60
          /\ And(cia.tod_hour, 15) \in 0 .. 9
          /\ And(cia.tod_hour, 96) = 0)
    /\ [][ (/\ op'[1] = "count_tod"
            /\ cia.tod_freq_div = 0 /\ cia.tod_dsec = 9
            /\ cia.tod_sec = 89 /\ cia.tod_min = 89)
          => cia'.tod_hour = HourSucc(cia.tod_hour) ]_vars

----------------------------------------------------------------------------
\* C12: a read of the interrupt control register (0x0D) returns icr as it
\* was before the read, leaves icr = 0, sets the callback to the
\* acknowledge of this chip (ClearCIAIrq for instance 1, ClearNMI for
\* instance 2) and leaves irq_mask and the rest of the chip unchanged.
C12_IcrReadClears ==
    [][ (op'[1] = "read" /\ op'[2] % 256 = 13) =>
          /\ retval' = cia.icr
          /\ cia' = [cia EXCEPT !.icr = 0]
          /\ cia'.irq_mask = cia.irq_mask
          /\ callback' = (IF cia.is_cia1 THEN "ClearCIAIrq" ELSE "ClearNMI")
          /\ ~panicked' ]_vars

\* C12 witness: the register was read with timer A's source pending and
\* signalled (icr = 0x81) under a non-empty mask; the read returned 0x81.
C12_Witness ==
    /\ op = <<"read", Reg(13), 0>>
    /\ retval = 129
    /\ cia.icr = 0
    /\ cia.irq_mask # 0
    /\ callback \in {"ClearCIAIrq", "ClearNMI"}

\* the interrupt sources of the chip: timer A, timer B, alarm, serial, flag
Sources == {1, 2, 4, 8, 16}

\* C13: trigger_irq(source) ORs source into icr and leaves irq_mask (and
\* every other field) unchanged; it sets bit 7 of icr and returns true if
\* and only if (irq_mask & source) != 0, otherwise it returns false and
\* leaves bit 7 as it was.  Stated for the call from every reachable state
\* and for the call process_irq makes for timer A.
C13_TriggerIrq ==
    /\ [](\A source \in Sources :
            LET r  == trigger_irq(cia, source)
                en == And(cia.irq_mask, source) # 0
            IN /\ r.ret = en
               /\ r.cia = [cia EXCEPT !.icr =
                             Or(Or(cia.icr, source), IF en THEN 128 ELSE 0)])
    /\ [][ (op'[1] = "process_irq" /\ cia.timer_a.irq_next_cycle) =>
             LET en == And(cia.irq_mask, 1) # 0
             IN /\ cia'.icr = Or(Or(cia.icr, 1), IF en THEN 128 ELSE 0)
                /\ cia'.irq_mask = cia.irq_mask
                /\ Signals(cia', cpu') = (IF en THEN 1 ELSE 0) ]_vars

\* C13 witness: process_irq has raised timer A's source with the source
\* enabled: the summary bit is set and the CPU was signalled once.
C13_Witness ==
    /\ op[1] = "process_irq"
    /\ ~cia.timer_a.irq_next_cycle
    /\ cia.icr = 129
    /\ And(cia.irq_mask, 1) # 0
    /\ Signals(cia, cpu) = 1

\* C13 witness of the other branch: process_irq has raised timer A's source
\* with the source disabled and another source (serial) enabled and
\* signalled earlier; the CPU was not signalled by this call.
C13_WitnessDisabled ==
    /\ op[1] = "process_irq"
    /\ And(cia.icr, 1) # 0
    /\ And(cia.irq_mask, 1) = 0
    /\ cia.irq_mask # 0
    /\ Signals(cia, cpu) = 0

\* values written to 0x0D when the write is examined in every state
MaskProbes == {8, 31, 129, 255}

\* irq_mask after a write of v to 0x0D
MaskAfter(m, v) ==
    IF v >= 128 THEN Or(m, v % 128) ELSE And(m, 127 - (v % 128))

\* C14: a write of v to the interrupt control register (0x0D) sets
\* irq_mask := irq_mask | (v & 0x7F) when bit 7 of v is set and
\* irq_mask := irq_mask & ~(v & 0x7F) otherwise; then, if
\* (icr & irq_mask & 0x1F) != 0, bit 7 of icr is set and the trigger
\* callback of this chip is requested, and otherwise icr is unchanged and
\* no callback is requested.  Stated for the write of each probe value in
\* every reachable state and for the writes performed.
C14_MaskWrite ==
    /\ [](\A v \in MaskProbes :
            LET r  == write_register(World, Reg(13), v)
                m1 == MaskAfter(cia.irq_mask, v)
                en == And(And(cia.icr, m1), 31) # 0
            IN /\ ~r.panic
               /\ r.cia = [cia EXCEPT !.irq_mask = m1,
                             !.icr = IF en THEN Or(@, 128) ELSE @]
               /\ r.cb = IF ~en THEN "None"
                         ELSE IF cia.is_cia1 THEN "TriggerCIAIrq"
                                             ELSE "TriggerNMI")
    /\ [][ (op'[1] = "write" /\ op'[2] % 256 = 13) =>
             LET m1 == MaskAfter(cia.irq_mask, op'[3])
                 en == And(And(cia.icr, m1), 31) # 0
             IN /\ cia'.irq_mask = m1
                /\ cia'.icr = (IF en THEN Or(cia.icr, 128) ELSE cia.icr)
                /\ (callback' \in {"TriggerCIAIrq", "TriggerNMI"}) <=> en
          ]_vars

\* C14 witness: with the serial source pending and not signalled
\* (icr = 0x08) and timer A enabled, the write of 0x8E has added sources
\* 1..3 to the mask, raised the summary bit and requested the trigger.
C14_Witness ==
    /\ op = <<"write", Reg(13), 142>>
    /\ cia.irq_mask = 15
    /\ cia.icr = 136
    /\ callback = TriggerCallback(cia)

\* C14 witness of the clearing branch: the write of 0x1F has emptied a
\* non-empty mask and requested nothing.
C14_WitnessDisable ==
    /\ op = <<"write", Reg(13), 31>>
    /\ cia.irq_mask = 0
    /\ cia.icr = 136
    /\ callback = "None"

----------------------------------------------------------------------------
(* The orchestrator (mod.rs): one emulated cycle of ZPC::run, with the     *)
(* CPU's memory-mapped accesses to the chip as separate operations.        *)

\* cpu.update(cycle_count): the CPU's step samples its interrupt lines; the
\* chip's calls on the CPU are all made before it
CpuUpdate(p) == p

\* cpu.reset() and memory.reset() of ZPC::reset
CpuReset(p) == [p EXCEPT !.cia_irq = FALSE, !.nmi = FALSE]

MemReset(m) == << >>

\* ZPC::reset
ZPC_reset(w) ==
    [w EXCEPT !.mem = MemReset(@), !.cpu = CpuReset(@), !.cia = reset(@)]

\* the body of `if self.clock.tick()` in ZPC::run; should_trigger_vblank is
\* never set, f12 is the state of the reset key
run(w, f12) ==
    LET w1 == process_irq(w)
        w2 == [w1 EXCEPT !.cia = update(@)]
        w3 == [w2 EXCEPT !.cpu = CpuUpdate(@)]
    IN IF f12 THEN ZPC_reset(w3) ELSE w3

Run(f12) == Commit(run(World, f12), <<"run", 0, IF f12 THEN 1 ELSE 0>>)

\* ZPC::new constructs chip instance 1 only
InitRun == Init /\ cia.is_cia1

MaxStepsRun == 7

RunOk == steps < MaxStepsRun

NextRun ==
    \/ RunOk /\ \E f12 \in BOOLEAN : Run(f12)
    \/ RunOk /\ WriteRegister(Reg(13), 129)
    \/ RunOk /\ \E k \in {14, 15} : WriteRegister(Reg(k), 17)
    \/ RunOk /\ ReadRegister(Reg(13))

SpecRun == InitRun /\ [][NextRun]_vars

\* C15: in every emulated cycle the chip's update() runs first, then its
\* process_irq(), then the CPU's update: a cycle in which update() makes
\* timer A underflow with source 1 enabled ends with the source delivered
\* (flag cleared, summary bit set) and the CPU signalled in that same cycle,
\* before the CPU's step.
C15_DeliveredBeforeCpuStep ==
    [][ (/\ op'[1] = "run"
         /\ ~cia.timer_a.irq_next_cycle
         /\ And(cia.icr, 1) = 0
         /\ And(cia'.icr, 1) # 0
         /\ And(cia.irq_mask, 1) # 0)
          => /\ ~cia'.timer_a.irq_next_cycle
             /\ Summary(cia')
             /\ Signals(cia', cpu') >= 1
             /\ cpu'.cia_irq ]_vars

----------------------------------------------------------------------------
(* Specification of register accesses outside the chip's page: the other   *)
(* instance's page and a page of neither instance.                         *)

MaxStepsPage == 4

PageOk == steps < MaxStepsPage

\* pages that are not this chip's: the other instance's, and 0xD000
OtherPages == {IF cia.is_cia1 THEN CIA2_BASE ELSE CIA1_BASE, 53248}

\* register offsets accessed out of page: a port, a timer byte, the
\* interrupt register, and mirrors of a port and of the interrupt register
PageOffsets == {0, 4, 13, 16, 29}

NextPage ==
    \/ PageOk /\ \E b \in OtherPages, k \in PageOffsets : ReadRegister(b + k)
    \/ PageOk /\ \E b \in OtherPages, k \in PageOffsets :
                    WriteRegister(b + k, 129)
    \/ PageOk /\ WriteRegister(Reg(12), 85)
    \/ PageOk /\ ReadRegister(Reg(13))

SpecPage == Init /\ [][NextPage]_vars

\* C16: a read_register or write_register call whose address is outside the
\* chip's page (high byte not 0xDC for instance 1, not 0xDD for instance 2)
\* ends in the fatal abort, whatever the register offset, without returning
\* a value and without changing the chip.
C16_OutOfPageAborts ==
    [][ (op'[1] \in {"read", "write"} /\ op'[2] \div 256 # Base \div 256)
          => /\ panicked'
             /\ retval' = -1
             /\ cia' = cia ]_vars

----------------------------------------------------------------------------
(* Specification with reset: timers started and run to underflow, ports,   *)
(* mask, latch and TOD changed, then CIA::reset.                           *)

MaxStepsReset == 6

ResetOk == steps < MaxStepsReset

NextReset ==
    \/ ResetOk /\ Update
    \/ ResetOk /\ Reset
    \/ ResetOk /\ ProcessIrq
    \/ ResetOk /\ CountTod
    \/ ResetOk /\ \E k \in {14, 15} : WriteRegister(Reg(k), 17)
    \/ ResetOk /\ WriteRegister(Reg(4), 2)
    \/ ResetOk /\ WriteRegister(Reg(3), 16)

SpecReset == Init /\ [][NextReset]_vars

\* C17: CIA::reset() leaves every field of the chip equal to its value in a
\* freshly constructed chip of the same instance, whatever was done before;
\* reset is idempotent.
C17_ResetRestoresPowerOn ==
    /\ [][ op'[1] = "reset" =>
             /\ cia' = new_shared(cia.is_cia1)
             /\ reset(cia') = cia' ]_vars
    /\ [](reset(reset(cia)) = reset(cia))

\* C17 witness: reset has been called on a chip whose timer A had been
\* started and whose latch and direction register B had been written, and
\* the chip is as constructed.
C17_Witness ==
    /\ op[1] = "reset"
    /\ {Reg(14), Reg(4), Reg(3)} \subseteq DOMAIN mem
    /\ cia = new_shared(cia.is_cia1)

----------------------------------------------------------------------------
(* Specification of a timer stopped while it counts: timer A is loaded     *)
(* with a latch of 2, started, and its run bit is cleared again.           *)

MaxStepsStop == 8

StopOk == steps < MaxStepsStop

StopCtrlBytes == {0, 1}

NextStop ==
    \/ StopOk /\ Update
    \/ StopOk /\ WriteRegister(Reg(4), 2)
    \/ StopOk /\ WriteRegister(Reg(5), 0)
    \/ StopOk /\ \E v \in StopCtrlBytes : WriteRegister(Reg(14), v)

SpecStop == Init /\ [][NextStop]_vars

\* C18: an update that evaluates timer A in Count or in CountStop with the
\* phi2 input selected, and finds value 0 or brings it to 0, reloads value
\* from latch, sets source bit 0 in icr, sets irq_next_cycle and sets the
\* underflow flag; an update evaluated in CountStop with no control byte
\* staged ends in Stop.
C18_UnderflowFiresInBothStates ==
    [][ (/\ op'[1] = "update"
         /\ cia.timer_a.state \in {"Count", "CountStop"}
         /\ cia.timer_a.is_cnt_phi2
         /\ cia.timer_a.value \in {0, 1})
          => /\ cia'.timer_a.value = cia.timer_a.latch
             /\ And(cia'.icr, 1) # 0
             /\ cia'.timer_a.irq_next_cycle
             /\ cia'.timer_a.underflow
             /\ (cia.timer_a.state = "CountStop" /\ ~cia.timer_a.has_new_ctrl)
                   => cia'.timer_a.state = "Stop" ]_vars

----------------------------------------------------------------------------
\* the count input of timer t is active in an update in which timer A's
\* underflow flag, as handed to timer B, is ta
InputActive(t, ta) == t.is_cnt_phi2 \/ (t.cnt_ta_underflow /\ ta)

\* what an update may do to the value of a timer it evaluates as t
ValueStep(t, t2, ta) ==
    IF t.state \in {"Count", "CountStop"} /\ InputActive(t, ta)
    THEN t2.value \in {(t.value - 1) % 65536, t.latch}
    ELSE t2.value \in {t.value, t.latch}

\* C19: an update decrements a timer's value only if it evaluates the timer
\* in Count or CountStop with the selected count input active in that
\* update (is_cnt_phi2, or cnt_ta_underflow together with the ta_underflow
\* input); in Stop, WaitCount, LoadStop, LoadCount and LoadWaitCount, and in
\* a counting state with the input inactive, value is unchanged or set to
\* latch.
C19_DecrementOnlyWhenCounting ==
    [][ op'[1] = "update" =>
          /\ ValueStep(cia.timer_a, cia'.timer_a, FALSE)
          /\ ValueStep(cia.timer_b, cia'.timer_b, cia'.timer_a.underflow)
      ]_vars

\* C19 witness: an update has evaluated both timers in Count with their
\* inputs active: timer A, counting phi2, went from 1 to 0 and was reloaded,
\* and timer B, counting timer A's underflows, was decremented once.
C19_Witness ==
    /\ op[1] = "update"
    /\ cia.timer_a.state = "LoadCount" /\ cia.timer_a.is_cnt_phi2
    /\ cia.timer_a.underflow /\ cia.timer_a.irq_next_cycle
    /\ cia.timer_b.state = "Count" /\ cia.timer_b.cnt_ta_underflow
    /\ cia.timer_b.value = 65534

----------------------------------------------------------------------------
(* Specification of a change of count input while a timer counts: the      *)
(* timers are started on phi2 and their control bytes rewritten with       *)
(* another input selected.                                                 *)

MaxStepsInput == 6

InputOk == steps < MaxStepsInput

InputBytesA == {1, 33}       \* 0x01 run, phi2;  0x21 run, CNT pin
InputBytesB == {1, 65}       \* 0x01 run, phi2;  0x41 run, timer A underflows

NextInput ==
    \/ InputOk /\ Update
    \/ InputOk /\ \E v \in InputBytesA : WriteRegister(Reg(14), v)
    \/ InputOk /\ \E v \in InputBytesB : WriteRegister(Reg(15), v)

SpecInput == Init /\ [][NextInput]_vars

\* C20: the count-input selection written with a control byte takes effect
\* with the rest of the byte: in the first update after a write to 0x0E
\* (the byte still staged) that evaluates timer A in Count, value is
\* decremented if the control byte in effect selects phi2 (ctrl bit 5
\* clear) and left alone otherwise, whatever the staged byte selects.
C20_InputSelectionStaged ==
    [][ (/\ op'[1] = "update"
         /\ cia.timer_a.state = "Count"
         /\ cia.timer_a.has_new_ctrl
         /\ cia.timer_a.value > 1)
          => cia'.timer_a.value =
                (IF And(cia.timer_a.ctrl, 32) = 0 THEN cia.timer_a.value - 1
                                                  ELSE cia.timer_a.value)
      ]_vars

----------------------------------------------------------------------------
\* C21: an update that evaluates a timer in LoadWaitCount with no control
\* byte staged ends with the timer in WaitCount, when value # 1 (value is
\* set to latch) and when value = 1 (the interrupt action fires).
C21_LoadWaitCountEndsInWaitCount ==
    [][ op'[1] = "update" =>
          /\ (cia.timer_a.state = "LoadWaitCount" /\ ~cia.timer_a.has_new_ctrl)
                => cia'.timer_a.state = "WaitCount"
          /\ (cia.timer_b.state = "LoadWaitCount" /\ ~cia.timer_b.has_new_ctrl)
                => cia'.timer_b.state = "WaitCount" ]_vars

----------------------------------------------------------------------------
\* the countdown step has acted on the value: one less, or reloaded from
\* the latch on underflow
Decremented(t, t2) ==
    \/ t2.value = (t.value - 1) % 65536
    \/ t.value \in {0, 1} /\ t2.value = t.latch

C22_WitnessLoad ==
    /\ op[1] = "update"
    /\ track.phase = "start" /\ track.load /\ track.n = 3
    /\ cia.timer_a.state = "Count"
    /\ cia.timer_a.value = cia.timer_a.latch

----------------------------------------------------------------------------
(* Specification of a timer running continuously: timer A's latch is set   *)
(* to a small N and the timer is started on phi2 without the one-shot bit. *)

MaxStepsPeriod == 10

PeriodOk == steps < MaxStepsPeriod

NextPeriod ==
    \/ PeriodOk /\ Update
    \/ PeriodOk /\ ProcessIrq
    \/ PeriodOk /\ \E n \in 1 .. MaxLatch : WriteRegister(Reg(4), n)
    \/ PeriodOk /\ WriteRegister(Reg(5), 0)
    \/ PeriodOk /\ WriteRegister(Reg(14), 1)

SpecPeriod == Init /\ [][NextPeriod]_vars

\* C29: timer A running continuously on phi2 (run bit set, one-shot clear)
\* with latch N >= 1 and no register write since its last underflow: the
\* first update after the underflow is the LoadCount update, which sets
\* value to N without decrementing; the next N updates each decrement
\* value, and the last of them (the N+1st update after the underflow)
\* underflows again, reloading value to N and raising source bit 0.
C29_ContinuousPeriod ==
    [][ (op'[1] = "update" /\ track.phase = "period") =>
          LET k  == track.n + 1
              t  == cia.timer_a
              t2 == cia'.timer_a
              N  == t.latch
          IN /\ N >= 1
             /\ k <= N + 1
             /\ k = 1 => /\ t.state = "LoadCount"
                         /\ t2.state = "Count" /\ t2.value = N
             /\ (1 < k /\ k <= N) => /\ t.state = "Count"
                                     /\ t2.state = "Count"
                                     /\ t2.value = t.value - 1
                                     /\ t2.value >= 1
             /\ (1 < k /\ k = N + 1) => /\ t.state = "Count" /\ t.value = 1
                                        /\ t2.state = "LoadCount"
                                        /\ t2.value = N
                                        /\ t2.irq_next_cycle
                                        /\ And(cia'.icr, 1) # 0
                                        /\ track'.phase = "period"
                                        /\ track'.n = 0
      ]_vars

\* C29 witness: timer A, latch 2, has underflowed for the second time, three
\* updates after the underflow before it.
C29_Witness ==
    /\ op[1] = "update"
    /\ track.phase = "period" /\ track.full /\ track.n = 0
    /\ cia.timer_a.latch = 2
    /\ cia.timer_a.value = 2
    /\ cia.timer_a.state = "LoadCount"

----------------------------------------------------------------------------
(* Specification of the pace of the time-of-day clock, with the 50/60 Hz   *)
(* bit of timer A's control byte clear or set.                             *)

MaxStepsPace == 9

PaceOk == steps < MaxStepsPace

NextPace ==
    \/ PaceOk /\ CountTod
    \/ PaceOk /\ Update
    \/ PaceOk /\ WriteRegister(Reg(14), 128)

SpecPace == Init /\ [][NextPace]_vars

\* the divisor reload value: 4 with bit 7 of timer A's ctrl set, 5 otherwise
TodReload(c) == IF And(c.timer_a.ctrl, 128) # 0 THEN 4 ELSE 5

\* C23: a count_tod call that advances tod_dsec reloads the divisor with 4
\* when bit 7 of timer A's effective control byte is set and with 5
\* otherwise, and tod_dsec advances once every that many calls: the call
\* that advances it is the 4th (5th) after the one that advanced it before;
\* the calls in between change only the divisor.
C23_TodPace ==
    [][ op'[1] = "count_tod" =>
          IF cia'.tod_dsec # cia.tod_dsec
          THEN /\ cia'.tod_freq_div = TodReload(cia)
               /\ todn >= 0 => todn + 1 = TodReload(cia)
          ELSE /\ cia' = [cia EXCEPT !.tod_freq_div = cia.tod_freq_div - 1]
               /\ cpu' = CpuIdle(cpu)
      ]_vars

----------------------------------------------------------------------------
\* the four clock fields equal the four alarm fields
AlarmMatch(c) ==
    /\ c.tod_dsec = c.alarm_dsec /\ c.tod_sec = c.alarm_sec
    /\ c.tod_min = c.alarm_min /\ c.tod_hour = c.alarm_hour

\* C24: when a count_tod call advances the clock and the four clock fields
\* then equal the four alarm fields, source bit 0x04 is set in icr, and the
\* summary bit is set and the CPU signalled (IRQ line for instance 1, NMI
\* line for instance 2) if and only if mask bit 2 is enabled; when a field
\* differs after the advance, and when the call does not advance the
\* clock, icr and the CPU lines are unchanged.
C24_TodAlarm ==
    [][ op'[1] = "count_tod" =>
          LET en == And(cia.irq_mask, 4) # 0 IN
          IF cia.tod_freq_div = 0 /\ AlarmMatch(cia')
          THEN /\ cia'.icr = Or(Or(cia.icr, 4), IF en THEN 128 ELSE 0)
               /\ Signals(cia', cpu') = (IF en THEN 1 ELSE 0)
               /\ en => (IF cia.is_cia1 THEN cpu'.cia_irq /\ cpu'.nmi = cpu.nmi
                                        ELSE cpu'.nmi /\ cpu'.cia_irq = cpu.cia_irq)
               /\ ~en => cpu' = CpuIdle(cpu)
          ELSE /\ cia'.icr = cia.icr
               /\ cpu' = CpuIdle(cpu)
      ]_vars

\* C24 witness: the alarm was set to one decisecond and enabled, and the
\* count_tod call that brought the clock to it raised source 4 with the
\* summary bit and signalled the CPU.
C24_Witness ==
    /\ op[1] = "count_tod"
    /\ cia.alarm_dsec = 1 /\ AlarmMatch(cia)
    /\ cia.icr = 132
    /\ Signals(cia, cpu) = 1

\* C24 witness with the source disabled: the call that brought the clock to
\* the alarm time raised source 4 only.
C24_WitnessDisabled ==
    /\ op[1] = "count_tod"
    /\ cia.alarm_dsec = 1 /\ AlarmMatch(cia)
    /\ cia.icr = 4
    /\ Signals(cia, cpu) = 0

----------------------------------------------------------------------------
(* Specification of the clock and alarm registers: the alarm select bit of *)
(* timer B's control byte is written and takes effect in update, the four  *)
(* registers are written with all bits set and with a BCD value.           *)

MaxStepsAlarm == 6

AlarmOk == steps < MaxStepsAlarm

TodWriteBytes == {255, 18}

NextAlarm ==
    \/ AlarmOk /\ Update
    \/ AlarmOk /\ \E v \in {0, 128} : WriteRegister(Reg(15), v)
    \/ AlarmOk /\ \E k \in 8 .. 11, v \in TodWriteBytes : WriteRegister(Reg(k), v)

SpecAlarm == Init /\ [][NextAlarm]_vars

\* the width of the field behind offset k
TodMask(k) == CASE k = 8 -> 15 [] k = 9 -> 127 [] k = 10 -> 127 [] k = 11 -> 159

\* the field behind offset k, of the alarm or of the clock
TodField(k, alarm) ==
    CASE k = 8  -> IF alarm THEN "alarm_dsec" ELSE "tod_dsec"
      [] k = 9  -> IF alarm THEN "alarm_sec" ELSE "tod_sec"
      [] k = 10 -> IF alarm THEN "alarm_min" ELSE "tod_min"
      [] k = 11 -> IF alarm THEN "alarm_hour" ELSE "tod_hour"

\* C25: a write to offset 0x08..0x0B stores the value masked to the field
\* width (0x0F, 0x7F, 0x7F, 0x9F) into the alarm field when bit 7 of timer
\* B's effective control byte is set and into the clock field otherwise,
\* and changes no other field of the chip.
C25_TodWrite ==
    [][ (op'[1] = "write" /\ op'[2] % 256 \in 8 .. 11) =>
          LET k == op'[2] % 256
              f == TodField(k, And(cia.timer_b.ctrl, 128) # 0)
          IN cia' = [cia EXCEPT ![f] = And(op'[3], TodMask(k))]
      ]_vars

\* C25 witness: with the alarm selected, 0xFF was written to the hours
\* register: the alarm hours are 0x9F and the clock hours are untouched.
C25_Witness ==
    /\ DidReg("write", 11) /\ op[3] = 255
    /\ And(cia.timer_b.ctrl, 128) # 0
    /\ cia.alarm_hour = 159 /\ cia.tod_hour = 0

\* C25 witness of the clock side: 0xFF written to the seconds register with
\* the alarm not selected after the alarm seconds had been set.
C25_WitnessClock ==
    /\ DidReg("write", 9) /\ op[3] = 255
    /\ And(cia.timer_b.ctrl, 128) = 0
    /\ cia.tod_sec = 127 /\ cia.alarm_sec = 18

----------------------------------------------------------------------------
\* C26: every register write that returns (offsets 0x00..0x0F, the serial
\* data register 0x0C included) stores the written byte in the I/O bank at
\* the written address.
C26_WriteStoresInIoBank ==
    [][ (op'[1] = "write" /\ ~panicked' /\ op'[2] % 256 \in 0 .. 15)
          => /\ op'[2] \in DOMAIN mem'
             /\ mem'[op'[2]] = op'[3] ]_vars

----------------------------------------------------------------------------
\* the states in which a timer is started
RunStates == {"WaitCount", "LoadCount", "LoadWaitCount", "Count"}

\* bit 0 of the effective control byte says what the state says
RunBitMatchesState(t) == (And(t.ctrl, 1) # 0) <=> (t.state \in RunStates)

\* C27: in every reachable state, for each timer, bit 0 of the effective
\* control byte ctrl is set if and only if the state is WaitCount,
\* LoadCount, LoadWaitCount or Count.
C27_RunBitMatchesState ==
    RunBitMatchesState(cia.timer_a) /\ RunBitMatchesState(cia.timer_b)


\* C27 witness: a one-shot timer that had been started underflowed: it is
\* in LoadStop with the run bit cleared by the interrupt action.
C27_Witness ==
    /\ Did("update")
    /\ cia.timer_a.state = "LoadStop" /\ cia.timer_a.underflow
    /\ cia.timer_a.ctrl = 8

\* C27 witness of the stop in idle: a one-shot start written while timer A
\* was about to count (WaitCount or LoadCount) stopped it, run bit cleared.
C27_WitnessIdle ==
    /\ Did("update")
    /\ Reg(14) \in DOMAIN mem /\ mem[Reg(14)] = 9
    /\ cia.timer_a.state = "Stop" /\ cia.timer_a.ctrl = 8
    /\ ~cia.timer_a.underflow

----------------------------------------------------------------------------
(* Specification of the control bytes: every combination of run (0x01),    *)
(* one-shot (0x08) and force-load (0x10) is written to timer A, started,   *)
(* cascaded and force-loaded bytes to timer B; the control registers are   *)
(* read back.                                                              *)

MaxStepsCtrl == 6

CtrlOk == steps < MaxStepsCtrl

StrobeBytesA == {0, 1, 8, 9, 16, 17, 24, 25}

StrobeBytesB == {0, 16, 17, 25, 81}

NextCtrl ==
    \/ CtrlOk /\ Update
    \/ CtrlOk /\ \E v \in StrobeBytesA : WriteRegister(Reg(14), v)
    \/ CtrlOk /\ \E v \in StrobeBytesB : WriteRegister(Reg(15), v)
    \/ CtrlOk /\ \E k \in {14, 15} : ReadRegister(Reg(k))

SpecCtrl == Init /\ [][NextCtrl]_vars


\* C30: in every reachable state bit 4 (0x10) of each timer's effective
\* control byte ctrl is clear, and a read of offset 0x0E or 0x0F returns a
\* byte with bit 4 clear, whatever control bytes were written.
C30_ForceLoadIsStrobe ==
    /\ And(cia.timer_a.ctrl, 16) = 0
    /\ And(cia.timer_b.ctrl, 16) = 0
    /\ (DidReg("read", 14) \/ DidReg("read", 15)) => And(retval, 16) = 0

\* C30 witness: 0x11 was written to timer A's control register and took
\* effect in an update; the register reads back as 0x01.
C30_Witness ==
    /\ DidReg("read", 14)
    /\ Reg(14) \in DOMAIN mem /\ mem[Reg(14)] = 17
    /\ ~cia.timer_a.has_new_ctrl
    /\ retval = 1

\* C30 witness on timer B: 0x51 written and effective, read back as 0x41.
C30_WitnessB ==
    /\ DidReg("read", 15)
    /\ Reg(15) \in DOMAIN mem /\ mem[Reg(15)] = 81
    /\ ~cia.timer_b.has_new_ctrl
    /\ retval = 65

----------------------------------------------------------------------------
\* C28: process_irq is not a source event: once a read of the interrupt
\* control register has cleared icr (icr is 0), a process_irq call leaves
\* icr at 0 and does not signal the CPU, even when the read happened
\* between the update that underflowed and this process_irq.
C28_AcknowledgeIsFinal ==
    [][ (op'[1] = "process_irq" /\ cia.icr = 0)
          => /\ cia'.icr = 0
             /\ Signals(cia', cpu') = 0 ]_vars

====
